---- MODULE Spec2Model ----
(***************************************************************************)
(* Model of src/app.py, the Streamlit front-end of the fuel cell           *)
(* predictor.  Streamlit executes the script from its first line to its    *)
(* last once when the page is opened and once more after every user        *)
(* interaction with a widget; widget values live in the session and are    *)
(* handed to the script by the st.slider / st.checkbox / st.button calls.  *)
(* One script run is modelled as a walk of pc through the statements of    *)
(* the script; an interaction is taken between two runs and starts the     *)
(* next one.                                                               *)
(*                                                                         *)
(* Units: slider values are integers counting slider steps of 0.01         *)
(* (voltage 7.5 V is 750).  Model outputs are integers counting 1/Scale.   *)
(***************************************************************************)
EXTENDS Integers, Sequences, FiniteSets, TLC

\* ---------------------------------------------------------------- bounds

\* Script runs (page load plus interactions) explored per session.
MaxRuns == 3
\* Resolution of the real numbers the models return: a value k stands for k/Scale.
Scale == 8

\* ------------------------------------------------------------------ state

VARIABLES
  pc,                \* the statement of app.py the current script run is at
  runs,              \* script runs started in this session
  files,             \* the three artifact files on disk
  loads,             \* joblib.load calls that returned, per artifact, since process start
  voltage_input, current_input, predict_toggle, cfg,   \* widget values of the session
  pressed,           \* the run was started by a click on "Predict Now"
  rf_load, rf_target, scaler,                          \* script globals, lines 10-12
  input_data, input_scaled, predicted_load, predicted_targets, target_df,
  rendered,          \* the elements this run has put on the page, in order
  avg_cell_voltage,  \* the text after "Avg Cell Voltage:" in the sidebar
  shown_load,        \* the number after "Predicted Load:"
  table, chart,      \* the rows of the dataframe element, the data of the bar chart
  calls,             \* the artifact calls of this run, in order
  ref                \* an earlier run's inputs and displayed results (history)

session == << voltage_input, current_input, predict_toggle, cfg >>
globals == << rf_load, rf_target, scaler >>
locals  == << input_data, input_scaled, predicted_load, predicted_targets, target_df >>
page    == << rendered, avg_cell_voltage, shown_load, table, chart >>
vars    == << pc, runs, files, loads, session, pressed, globals, locals, page, calls, ref >>

\* ------------------------------------------------------ program constants

\* st.slider("Voltage (V)", 0.0, 20.0, 7.5, 0.01), in steps of 0.01
VoltageMin == 0
VoltageMax == 2000
VoltageDefault == 750
\* st.slider("Current (A)", 0.0, 10.0, 6.5, 0.01), in steps of 0.01
CurrentMin == 0
CurrentMax == 1000
CurrentDefault == 650

\* The label list with its last label lost.
target_columns_short ==
  << "Power Output (W)", "Efficiency (%)", "Hydrogen Consumption Rate (mol/sec)",
     "Oxygen Consumption Rate (mol/sec)", "Water Production (mol/sec)",
     "Heat Generation Rate (W)", "Power Density (W/cm2)" >>

target_columns ==
  << "Power Output (W)", "Efficiency (%)", "Hydrogen Consumption Rate (mol/sec)",
     "Oxygen Consumption Rate (mol/sec)", "Water Production (mol/sec)",
     "Heat Generation Rate (W)", "Power Density (W/cm2)", "Current Density (A/cm2)" >>

\* The sidebar sliders' initial values (third argument of each st.slider):
\* floats in steps of 0.01, NUMBER_OF_CELLS an integer.
SidebarDefault ==
  [ FARADAY_CONSTANT          |-> 9648500,
    STACK_RATED_POWER         |-> 10000,
    NUMBER_OF_CELLS           |-> 20,
    STACK_VOLTAGE             |-> 1200,
    EFFECTIVE_AREA_PEM_CELL   |-> 2600,
    TIME_CONVERSION           |-> 6000,
    MOLE_TO_VOLUME_CONVERSION |-> 2365,
    REFERENCE_VOLTAGE_HEATING |-> 125,
    MAXIMUM_FUEL_CELL_VOLTAGE |-> 148 ]

\* The sidebar sliders' ranges (first and second argument of each st.slider).
SidebarRange ==
  [ FARADAY_CONSTANT          |-> << 9000000, 10000000 >>,
    STACK_RATED_POWER         |-> << 5000, 20000 >>,
    NUMBER_OF_CELLS           |-> << 10, 50 >>,
    STACK_VOLTAGE             |-> << 600, 2400 >>,
    EFFECTIVE_AREA_PEM_CELL   |-> << 1000, 5000 >>,
    TIME_CONVERSION           |-> << 1000, 12000 >>,
    MOLE_TO_VOLUME_CONVERSION |-> << 2000, 3000 >>,
    REFERENCE_VOLTAGE_HEATING |-> << 100, 200 >>,
    MAXIMUM_FUEL_CELL_VOLTAGE |-> << 100, 200 >> ]

SidebarNames == DOMAIN SidebarDefault

\* ------------------------------------------------------------ user inputs

\* Positions a user drags the voltage / current slider towards; positions past
\* an end of the track are those a drag beyond the track asks for.
VoltageRequests == { -1, 1200, 2001 }
CurrentRequests == { -1, 300, 1001 }
\* Positions a user drags a sidebar slider towards: past the upper end of its track.
SidebarRequests(name) == { SidebarRange[name][2] + 1 }

\* -------------------------------------------------------------- artifacts

\* The three pickled artifacts are opaque to the script.  A fitted scaler is a
\* per-feature shift; a fitted forest is piecewise constant in its input, here a
\* single split on one feature.  rf_load returns one number per input row,
\* rf_target one row of numbers per input row.
ArtifactSets ==
  { [ scaler    |-> [ mean |-> << 750, 650 >> ],
      rf_load   |-> [ feature |-> 1, threshold |-> 0, left |-> 12, right |-> 20 ],
      rf_target |-> [ feature |-> 2, threshold |-> 0,
                      left  |-> << 1, 3, 5, 0, -1, 100, 9, 17 >>,
                      right |-> << 2, 4, 7, 8, -3, 101, 11, 15 >> ] ],
    [ scaler    |-> [ mean |-> << 1000, 500 >> ],
      rf_load   |-> [ feature |-> 2, threshold |-> 100, left |-> -5, right |-> 27 ],
      rf_target |-> [ feature |-> 1, threshold |-> 500,
                      left  |-> << 6, 13, 5, 1, 2, 3, 4, 801 >>,
                      right |-> << 10, 20, 30, 40, 50, 60, 70, 80 >> ] ],
    \* a target model fitted on seven targets instead of eight
    [ scaler    |-> [ mean |-> << 0, 0 >> ],
      rf_load   |-> [ feature |-> 1, threshold |-> 1000, left |-> 4, right |-> 15 ],
      rf_target |-> [ feature |-> 1, threshold |-> 1000,
                      left  |-> << 1, 2, 3, 4, 5, 6, 7 >>,
                      right |-> << 7, 6, 5, 4, 3, 2, 1 >> ] ] }

\* ------------------------------------------------------- pure computations

\* A slider whose track has no upper end.
SliderValueUnbounded(min, max, request) == IF request < min THEN min ELSE request

\* The value a slider widget hands to the script: always on its track.
SliderValue(min, max, request) ==
  IF request < min THEN min ELSE IF request > max THEN max ELSE request

Abs(k) == IF k < 0 THEN -k ELSE k

Digit(d) == << "0", "1", "2", "3", "4", "5", "6", "7", "8", "9" >>[d + 1]

RECURSIVE Digits(_)
\* The decimal digits of a natural number, most significant first.
Digits(n) == IF n < 10 THEN << Digit(n) >> ELSE Digits(n \div 10) \o << Digit(n % 10) >>

\* num/den (num >= 0, den > 0) rounded to the nearest integer, a tie to the even
\* neighbour: what both numpy's round() and the 'f' presentation type do with a
\* value the float holds exactly.
RoundHalfEvenNat(num, den) ==
  LET q == num \div den
      r == num % den
  IN  IF 2 * r > den THEN q + 1
      ELSE IF 2 * r < den THEN q
      ELSE IF q % 2 = 0 THEN q ELSE q + 1

\* f"{val:.1f}": one digit after the point.
FormatFixed1(num, den) ==
  LET t == RoundHalfEvenNat(10 * Abs(num), den)
  IN  (IF num < 0 THEN << "-" >> ELSE << >>)
        \o Digits(t \div 10) \o << "." >> \o << Digit(t % 10) >>

\* f"{val:.2f}" of the value num/den: sign, integer part, point, two digits.
\* A negative value that rounds to zero keeps its sign ("-0.00").
FormatFixed2(num, den) ==
  LET h == RoundHalfEvenNat(100 * Abs(num), den)
  IN  (IF num < 0 THEN << "-" >> ELSE << >>)
        \o Digits(h \div 100) \o << "." >> \o << Digit((h \div 10) % 10), Digit(h % 10) >>

\* ndarray.astype(int) without round(): truncation towards zero.
RoundAsIntTruncating(k) == IF k < 0 THEN - ((-k) \div Scale) ELSE k \div Scale

\* ndarray.round().astype(int) on one element k/Scale.
RoundAsInt(k) ==
  IF k < 0 THEN - RoundHalfEvenNat(-k, Scale) ELSE RoundHalfEvenNat(k, Scale)

\* A scaler that is refitted by every call, so that its centre depends on how
\* many runs came before.
ScalerTransformRefitting(s, row) ==
  << row[1] - s.mean[1] + (IF runs % 2 = 0 THEN 4000 ELSE -4000),
     row[2] - s.mean[2] + (IF runs % 2 = 0 THEN 4000 ELSE -4000) >>

\* scaler.transform(input_data): one row in, one row out.
ScalerTransform(s, row) == << row[1] - s.mean[1], row[2] - s.mean[2] >>

\* rf_load.predict(input_scaled): an array with one element per input row.
LoadPredict(m, row) == << IF row[m.feature] <= m.threshold THEN m.left ELSE m.right >>

\* rf_target.predict(input_scaled): an array with one row per input row.
TargetPredict(m, row) == << IF row[m.feature] <= m.threshold THEN m.left ELSE m.right >>

\* The "Value" column: [f"{val:.2f}" for val in predicted_targets]
FormatValues(vals) == [ i \in 1..Len(vals) |-> FormatFixed2(vals[i], Scale) ]

\* pd.DataFrame(target_data) raises ValueError unless its columns have one length.
DataFrameOk(variable, value) == Len(variable) = Len(value)

\* The rows of pd.DataFrame({"Variable": variable, "Value": value}).
DataFrame(variable, value) ==
  [ i \in 1..Len(variable) |-> [ Variable |-> variable[i], Value |-> value[i] ] ]

\* ----------------------------------------------------------- state helpers

Artifacts == { "rf_load", "rf_target", "scaler" }

Has(seq, e) == \E i \in 1..Len(seq) : seq[i] = e
Count(seq, fn) == Cardinality({ i \in 1..Len(seq) : seq[i].fn = fn })

\* A fresh script run: the module namespace and the page start empty.
FreshRun ==
  /\ pc' = "load_rf_load"
  /\ runs' = runs + 1
  /\ rf_load' = << >> /\ rf_target' = << >> /\ scaler' = << >>
  /\ input_data' = << >> /\ input_scaled' = << >>
  /\ predicted_load' = << >> /\ predicted_targets' = << >> /\ target_df' = << >>
  /\ rendered' = << >> /\ avg_cell_voltage' = << >> /\ shown_load' = << >>
  /\ table' = << >> /\ chart' = << >>
  /\ calls' = << >>

Init ==
  /\ pc = "load_rf_load"
  /\ runs = 1
  /\ files \in ArtifactSets
  /\ loads = [ a \in Artifacts |-> 0 ]
  /\ voltage_input = VoltageDefault
  /\ current_input = CurrentDefault
  /\ predict_toggle = TRUE
  /\ cfg = SidebarDefault
  /\ pressed = FALSE
  /\ rf_load = << >> /\ rf_target = << >> /\ scaler = << >>
  /\ input_data = << >> /\ input_scaled = << >>
  /\ predicted_load = << >> /\ predicted_targets = << >> /\ target_df = << >>
  /\ rendered = << >> /\ avg_cell_voltage = << >> /\ shown_load = << >>
  /\ table = << >> /\ chart = << >>
  /\ calls = << >>
  /\ ref = << >>

\* ----------------------------------------------------------- interactions

\* The script is not running: its last run ended, normally or with an exception.
Idle == pc \in { "done", "error" } /\ runs < MaxRuns

MoveVoltage ==
  /\ Idle /\ Has(rendered, "inputs")
  /\ \E request \in VoltageRequests :
        /\ voltage_input' = SliderValue(VoltageMin, VoltageMax, request)
        /\ voltage_input' # voltage_input
  /\ pressed' = FALSE
  /\ FreshRun
  /\ UNCHANGED << files, loads, current_input, predict_toggle, cfg, ref >>

MoveCurrent ==
  /\ Idle /\ Has(rendered, "inputs")
  /\ \E request \in CurrentRequests :
        /\ current_input' = SliderValue(CurrentMin, CurrentMax, request)
        /\ current_input' # current_input
  /\ pressed' = FALSE
  /\ FreshRun
  /\ UNCHANGED << files, loads, voltage_input, predict_toggle, cfg, ref >>

MoveSidebar ==
  /\ Idle /\ Has(rendered, "sidebar")
  /\ \E name \in SidebarNames : \E request \in SidebarRequests(name) :
        /\ cfg' = [ cfg EXCEPT ![name] =
                      SliderValue(SidebarRange[name][1], SidebarRange[name][2], request) ]
        /\ cfg' # cfg
  /\ pressed' = FALSE
  /\ FreshRun
  /\ UNCHANGED << files, loads, voltage_input, current_input, predict_toggle, ref >>

FlipToggle ==
  /\ Idle /\ Has(rendered, "toggle")
  /\ predict_toggle' = ~ predict_toggle
  /\ pressed' = FALSE
  /\ FreshRun
  /\ UNCHANGED << files, loads, voltage_input, current_input, cfg, ref >>

\* The button can be clicked only if the last run put it on the page.
PressButton ==
  /\ Idle /\ Has(rendered, "button")
  /\ pressed' = TRUE
  /\ FreshRun
  /\ UNCHANGED << files, loads, session, ref >>

\* "Rerun" from the app menu: the script runs again on the same widget values.
Rerun ==
  /\ Idle
  /\ pressed' = FALSE
  /\ FreshRun
  /\ UNCHANGED << files, loads, session, ref >>

\* ------------------------------------------------------------- script run

\* A call that raises is made again.
AfterCallRetrying(ok, here, next) == IF ok THEN next ELSE here

\* Where the run continues after a call made at `here`: the script catches
\* nothing, so a call that raises ends the run.
AfterCall(ok, here, next) == IF ok THEN next ELSE "error"

\* Line 10: rf_load = joblib.load("rf_load_model.pkl")
LoadRfLoad ==
  /\ pc = "load_rf_load"
  /\ \E ok \in BOOLEAN :
        /\ calls' = Append(calls, [ fn |-> "load_rf_load", arg |-> << >>, ok |-> ok ])
        /\ rf_load' = IF ok THEN << files.rf_load >> ELSE rf_load
        /\ loads' = IF ok THEN [ loads EXCEPT !["rf_load"] = @ + 1 ] ELSE loads
        /\ pc' = AfterCall(ok, "load_rf_load", "load_rf_target")
  /\ UNCHANGED << runs, files, session, pressed, rf_target, scaler, locals, page, ref >>

\* Line 11: rf_target = joblib.load("rf_target_model.pkl")
LoadRfTarget ==
  /\ pc = "load_rf_target"
  /\ \E ok \in BOOLEAN :
        /\ calls' = Append(calls, [ fn |-> "load_rf_target", arg |-> << >>, ok |-> ok ])
        /\ rf_target' = IF ok THEN << files.rf_target >> ELSE rf_target
        /\ loads' = IF ok THEN [ loads EXCEPT !["rf_target"] = @ + 1 ] ELSE loads
        /\ pc' = AfterCall(ok, "load_rf_target", "load_scaler")
  /\ UNCHANGED << runs, files, session, pressed, rf_load, scaler, locals, page, ref >>

\* Line 12: scaler = joblib.load("scaler.pkl")
LoadScaler ==
  /\ pc = "load_scaler"
  /\ \E ok \in BOOLEAN :
        /\ calls' = Append(calls, [ fn |-> "load_scaler", arg |-> << >>, ok |-> ok ])
        /\ scaler' = IF ok THEN << files.scaler >> ELSE scaler
        /\ loads' = IF ok THEN [ loads EXCEPT !["scaler"] = @ + 1 ] ELSE loads
        /\ pc' = AfterCall(ok, "load_scaler", "header")
  /\ UNCHANGED << runs, files, session, pressed, rf_load, rf_target, locals, page, ref >>

\* Lines 39-48: page config and header.
RenderHeader ==
  /\ pc = "header"
  /\ rendered' = Append(rendered, "header")
  /\ pc' = "sidebar"
  /\ UNCHANGED << runs, files, loads, session, pressed, globals, locals,
                  avg_cell_voltage, shown_load, table, chart, calls, ref >>

\* AVERAGE_CELL_VOLTAGE = STACK_VOLTAGE / NUMBER_OF_CELLS, shown with :.2f
\* (STACK_VOLTAGE counts hundredths of a volt).
AverageCellVoltageText == FormatFixed2(cfg.STACK_VOLTAGE, 100 * cfg.NUMBER_OF_CELLS)

\* Lines 51-63: the nine sidebar sliders and the average cell voltage.
RenderSidebar ==
  /\ pc = "sidebar"
  /\ avg_cell_voltage' = << AverageCellVoltageText >>
  /\ rendered' = Append(rendered, "sidebar")
  /\ pc' = "inputs"
  /\ UNCHANGED << runs, files, loads, session, pressed, globals, locals,
                  shown_load, table, chart, calls, ref >>

\* Lines 66-71: the voltage and current sliders.
RenderInputs ==
  /\ pc = "inputs"
  /\ rendered' = Append(rendered, "inputs")
  /\ pc' = "toggle"
  /\ UNCHANGED << runs, files, loads, session, pressed, globals, locals,
                  avg_cell_voltage, shown_load, table, chart, calls, ref >>

\* The condition without the button.
ShouldPredictToggleOnly == predict_toggle

\* Line 76: predict_toggle or st.button(...)
ShouldPredict == predict_toggle \/ pressed

\* Line 76: `or` evaluates st.button only when predict_toggle is false.
ButtonEvaluated == ~ predict_toggle

\* Lines 74-76: the checkbox, and the button when the condition reaches it.
EvalToggle ==
  /\ pc = "toggle"
  /\ rendered' = IF ButtonEvaluated
                  THEN rendered \o << "toggle", "button" >>
                  ELSE Append(rendered, "toggle")
  /\ pc' = IF ShouldPredict THEN "scale" ELSE "footer"
  /\ UNCHANGED << runs, files, loads, session, pressed, globals, locals,
                  avg_cell_voltage, shown_load, table, chart, calls, ref >>

\* The row built from the sidebar's stack voltage instead of the voltage slider.
InputDataStackVoltage == << cfg.STACK_VOLTAGE, current_input >>

\* Line 78: input_data = np.array([[voltage_input, current_input]]), its one row.
InputData == << voltage_input, current_input >>

\* Lines 78-79: input_scaled = scaler.transform(input_data)
Scale_ ==
  /\ pc = "scale"
  /\ input_data' = << InputData >>
  /\ \E ok \in BOOLEAN :
        /\ calls' = Append(calls, [ fn |-> "transform", arg |-> << InputData >>, ok |-> ok ])
        /\ input_scaled' = IF ok THEN << ScalerTransform(Head(scaler), InputData) >>
                            ELSE input_scaled
        /\ pc' = AfterCall(ok, "scale", "predict_load")
  /\ UNCHANGED << runs, files, loads, session, pressed, globals,
                  predicted_load, predicted_targets, target_df, page, ref >>

\* The models given the unscaled row.
ModelInputRaw == input_data

\* Lines 82-83: what both predict calls are given.
ModelInput == input_scaled

\* Line 82: predicted_load = rf_load.predict(input_scaled).round().astype(int)[0]
PredictLoad ==
  /\ pc = "predict_load"
  /\ \E ok \in BOOLEAN :
        /\ calls' = Append(calls, [ fn |-> "predict_load", arg |-> ModelInput, ok |-> ok ])
        /\ predicted_load' =
             IF ok THEN << RoundAsInt(LoadPredict(Head(rf_load), Head(ModelInput))[1]) >>
             ELSE predicted_load
        /\ pc' = AfterCall(ok, "predict_load", "predict_targets")
  /\ UNCHANGED << runs, files, loads, session, pressed, globals,
                  input_data, input_scaled, predicted_targets, target_df, page, ref >>

\* Line 83: predicted_targets = rf_target.predict(input_scaled)[0]
PredictTargets ==
  /\ pc = "predict_targets"
  /\ \E ok \in BOOLEAN :
        /\ calls' = Append(calls, [ fn |-> "predict_targets", arg |-> ModelInput, ok |-> ok ])
        /\ predicted_targets' =
             IF ok THEN << TargetPredict(Head(rf_target), Head(ModelInput))[1] >>
             ELSE predicted_targets
        /\ pc' = AfterCall(ok, "predict_targets", "progress")
  /\ UNCHANGED << runs, files, loads, session, pressed, globals,
                  input_data, input_scaled, predicted_load, target_df, page, ref >>

\* Lines 86-91: spinner and progress bar.
RenderProgress ==
  /\ pc = "progress"
  /\ rendered' = Append(rendered, "progress")
  /\ pc' = "load_label"
  /\ UNCHANGED << runs, files, loads, session, pressed, globals, locals,
                  avg_cell_voltage, shown_load, table, chart, calls, ref >>

\* Lines 94-103: "Predicted Load: {predicted_load}"
RenderLoad ==
  /\ pc = "load_label"
  /\ shown_load' = predicted_load
  /\ rendered' = Append(rendered, "load")
  /\ pc' = "build_table"
  /\ UNCHANGED << runs, files, loads, session, pressed, globals, locals,
                  avg_cell_voltage, table, chart, calls, ref >>

\* Lines 106-111: the heading, target_data and target_df.
BuildTable ==
  /\ pc = "build_table"
  /\ rendered' = Append(rendered, "results_heading")
  /\ LET value == FormatValues(Head(predicted_targets))
     IN  IF DataFrameOk(target_columns, value)
         THEN /\ target_df' = << DataFrame(target_columns, value) >>
              /\ pc' = "table"
         ELSE /\ target_df' = target_df
              /\ pc' = "error"
  /\ UNCHANGED << runs, files, loads, session, pressed, globals,
                  input_data, input_scaled, predicted_load, predicted_targets,
                  avg_cell_voltage, shown_load, table, chart, calls, ref >>

\* Lines 114-130: table_container.dataframe(target_df.style...)
RenderTable ==
  /\ pc = "table"
  /\ table' = target_df
  /\ rendered' = Append(rendered, "table")
  /\ pc' = "chart"
  /\ UNCHANGED << runs, files, loads, session, pressed, globals, locals,
                  avg_cell_voltage, shown_load, chart, calls, ref >>

\* target_df[name]
Column(df, name) == [ i \in 1..Len(df) |-> df[i][name] ]

\* Lines 140-148: px.bar(target_df, x="Variable", y="Value", text=target_df["Value"])
BarChart(df) ==
  [ x |-> Column(df, "Variable"), y |-> Column(df, "Value"), text |-> Column(df, "Value") ]

\* What this run took in and put on the page.
Snapshot ==
  [ voltage |-> voltage_input, current |-> current_input, cfg |-> cfg,
    toggle |-> predict_toggle, pressed |-> pressed, run |-> runs,
    predicted_load |-> predicted_load, predicted_targets |-> predicted_targets,
    load |-> shown_load, values |-> Column(Head(table), "Value") ]

\* Lines 133-151: the heading and the bar chart.  The history variable ref may
\* keep this run's inputs and results for comparison with a later run.
RenderChart ==
  /\ pc = "chart"
  /\ chart' = << BarChart(Head(target_df)) >>
  /\ rendered' = Append(rendered, "chart")
  /\ pc' = "footer"
  /\ \E keep \in BOOLEAN :
        ref' = IF keep /\ ref = << >> THEN << Snapshot >> ELSE ref
  /\ UNCHANGED << runs, files, loads, session, pressed, globals, locals,
                  avg_cell_voltage, shown_load, table, calls >>

\* Lines 154-160: the footer, the script's last statement.
RenderFooter ==
  /\ pc = "footer"
  /\ rendered' = Append(rendered, "footer")
  /\ pc' = "done"
  /\ UNCHANGED << runs, files, loads, session, pressed, globals, locals,
                  avg_cell_voltage, shown_load, table, chart, calls, ref >>

Next ==
  \/ MoveVoltage \/ MoveCurrent \/ MoveSidebar \/ FlipToggle \/ PressButton \/ Rerun
  \/ LoadRfLoad \/ LoadRfTarget \/ LoadScaler
  \/ RenderHeader \/ RenderSidebar \/ RenderInputs \/ EvalToggle
  \/ Scale_ \/ PredictLoad \/ PredictTargets
  \/ RenderProgress \/ RenderLoad \/ BuildTable \/ RenderTable \/ RenderChart
  \/ RenderFooter

Spec == Init /\ [][Next]_vars

\* ------------------------------------------------- reading displayed text

RunEnded == pc \in { "done", "error" }

IsDigit(ch) == ch \in { "0", "1", "2", "3", "4", "5", "6", "7", "8", "9" }

DigitValue(ch) == CHOOSE d \in 0..9 : Digit(d) = ch

RECURSIVE DigitsValue(_)
DigitsValue(s) ==
  IF s = << >> THEN 0
  ELSE 10 * DigitsValue(SubSeq(s, 1, Len(s) - 1)) + DigitValue(s[Len(s)])

Unsigned(t) == IF t # << >> /\ t[1] = "-" THEN Tail(t) ELSE t

\* t reads as an optional sign, one or more digits, a point and exactly two digits.
TwoDecimalText(t) ==
  LET u == Unsigned(t)
      n == Len(u)
  IN  /\ n >= 4
      /\ u[n - 2] = "."
      /\ \A i \in (1..n) \ { n - 2 } : IsDigit(u[i])

\* The magnitude of a two-decimal text, in hundredths.
Hundredths(t) ==
  LET u == Unsigned(t)
      n == Len(u)
  IN  DigitsValue(SubSeq(u, 1, n - 3) \o SubSeq(u, n - 1, n))

\* The text t shows the value num/den (den > 0) to the nearest hundredth.
ShowsToHundredth(t, num, den) ==
  /\ TwoDecimalText(t)
  /\ 2 * Abs(Hundredths(t) * den - 100 * Abs(num)) <= den
  /\ (t[1] = "-") <=> (num < 0)

ResultsShown == Has(rendered, "load") /\ Has(rendered, "table") /\ Has(rendered, "chart")

CallMade(fn) == \E i \in 1..Len(calls) : calls[i].fn = fn
CallFailed(fn) == \E i \in 1..Len(calls) : calls[i].fn = fn /\ ~ calls[i].ok
CallReturned(fn) == \E i \in 1..Len(calls) : calls[i].fn = fn /\ calls[i].ok

SameInputsAsRef ==
  /\ ref # << >>
  /\ ref[1].run < runs
  /\ ref[1].voltage = voltage_input
  /\ ref[1].current = current_input

\* ----------------------------------------------------------------- claims

\* C1: two prediction runs on the same (voltage, current) pair and the same
\* artifacts give the same predicted load and the same eight predicted target
\* values, whatever interactions came before each of them.
C1_Deterministic ==
  (SameInputsAsRef /\ Has(rendered, "chart")) =>
     /\ predicted_load = ref[1].predicted_load
     /\ predicted_targets = ref[1].predicted_targets
     /\ shown_load = ref[1].load

\* C1 witness: a prediction started by the button with the toggle off repeats an
\* earlier prediction made on the same inputs with the toggle on.
C1_Witness ==
  /\ SameInputsAsRef /\ Has(rendered, "chart")
  /\ pressed /\ ~ predict_toggle /\ ref[1].toggle

\* C2: a displayed results table has exactly eight rows, row i carrying the i-th
\* label of the fixed label list and the i-th predicted value; the chart has the
\* same eight entries.
C2_EightRows ==
  /\ Has(rendered, "table") =>
       /\ Len(Head(table)) = 8
       /\ Len(Head(predicted_targets)) = 8
       /\ Column(Head(table), "Variable") =
            << "Power Output (W)", "Efficiency (%)", "Hydrogen Consumption Rate (mol/sec)",
               "Oxygen Consumption Rate (mol/sec)", "Water Production (mol/sec)",
               "Heat Generation Rate (W)", "Power Density (W/cm2)",
               "Current Density (A/cm2)" >>
       /\ \A i \in 1..8 :
            Head(table)[i].Value = FormatFixed2(Head(predicted_targets)[i], Scale)
  /\ Has(rendered, "chart") =>
       /\ Len(Head(chart).x) = 8
       /\ Head(chart).x = Column(Head(table), "Variable")

\* C2 witness: a run has displayed the table and the chart.
C2_Witness ==
  /\ pc = "done" /\ Has(rendered, "table") /\ Has(rendered, "chart")
  /\ Len(Head(table)) = 8

\* C3: the displayed load is an integer, the nearest one to the first element of
\* the load model's output on the scaled input.
C3_LoadIsInteger ==
  Has(rendered, "load") =>
     /\ Len(shown_load) = 1
     /\ shown_load[1] \in Int
     /\ LET out == LoadPredict(Head(rf_load), Head(input_scaled))
        IN  2 * Abs(shown_load[1] * Scale - out[1]) <= Scale

\* C3 witness: a load is displayed for a model output that is not a whole number
\* and was rounded up.
C3_Witness ==
  /\ Has(rendered, "load")
  /\ LET out == LoadPredict(Head(rf_load), Head(input_scaled))
     IN  out[1] % Scale # 0 /\ shown_load[1] * Scale > out[1]

\* C4: each of the eight displayed values is the predicted target value to two
\* decimal places, and the chart's values and texts are the table's values.
C4_TwoDecimals ==
  /\ Has(rendered, "table") =>
       \A i \in 1..Len(Head(table)) :
          ShowsToHundredth(Head(table)[i].Value, Head(predicted_targets)[i], Scale)
  /\ Has(rendered, "chart") =>
       /\ Head(chart).y = Column(Head(table), "Value")
       /\ Head(chart).text = Column(Head(table), "Value")

\* C4 witness: the chart is displayed and one of its values was rounded up to
\* the next hundredth, another is negative.
C4_Witness ==
  /\ Has(rendered, "chart")
  /\ \E i \in 1..8 :
       Hundredths(Head(chart).y[i]) * Scale > 100 * Abs(Head(predicted_targets)[i])
  /\ \E i \in 1..8 : Head(chart).y[i][1] = "-"

\* C5: voltage stays within 0..20 V and current within 0..10 A (in steps of
\* 0.01: 0..2000 and 0..1000), in every state and in every row handed to the
\* scaler; before any interaction they are 7.5 V and 6.5 A.
C5_InputsBounded ==
  /\ voltage_input \in 0..2000
  /\ current_input \in 0..1000
  /\ \A i \in 1..Len(calls) :
       calls[i].fn = "transform" =>
          /\ calls[i].arg[1][1] \in 0..2000
          /\ calls[i].arg[1][2] \in 0..1000
          /\ calls[i].arg[1] = << voltage_input, current_input >>
  /\ runs = 1 => (voltage_input = 750 /\ current_input = 650)

\* C5 witness: the scaler is called after the user dragged the voltage slider
\* past its upper end and the current slider past its lower end.
C5_Witness ==
  /\ CallMade("transform")
  /\ voltage_input = 2000 /\ current_input = 0

\* C6: each artifact is loaded once per process; no interaction loads it again.
C6_LoadedOnce == \A a \in Artifacts : loads[a] <= 1

\* C7: within a run the scaler is called at most once, on the (voltage, current)
\* pair; each model is called on the scaler's output, the load model before the
\* target model; no result is displayed before both predictions returned.
C7_StepOrder ==
  /\ Count(calls, "transform") <= 1
  /\ \A i \in 1..Len(calls) :
       calls[i].fn \in { "predict_load", "predict_targets" } =>
          \E j \in 1..(i - 1) :
             /\ calls[j].fn = "transform" /\ calls[j].ok
             /\ calls[j].arg = << << voltage_input, current_input >> >>
             /\ calls[i].arg = << ScalerTransform(Head(scaler), calls[j].arg[1]) >>
  /\ \A i \in 1..Len(calls) :
       calls[i].fn = "predict_targets" =>
          \E j \in 1..(i - 1) : calls[j].fn = "predict_load" /\ calls[j].ok
  /\ (Has(rendered, "load") \/ Has(rendered, "table") \/ Has(rendered, "chart")) =>
       (CallReturned("predict_load") /\ CallReturned("predict_targets"))

\* C7 witness: a run made the six calls in order and displayed the chart.
C7_Witness ==
  /\ Has(rendered, "chart")
  /\ [ i \in 1..Len(calls) |-> calls[i].fn ] =
       << "load_rf_load", "load_rf_target", "load_scaler",
          "transform", "predict_load", "predict_targets" >>
  /\ calls[5].arg # calls[4].arg

\* C8: a call that raises ends the run: it is the run's last call, it is not
\* made again, a failed load leaves the page empty and no prediction call is
\* made, and a failed transform or predict leaves the load label, the table
\* and the chart off the page.
C8_ErrorsPropagate ==
  /\ \A i \in 1..Len(calls) : ~ calls[i].ok => (pc = "error" /\ i = Len(calls))
  /\ \A fn \in { calls[i].fn : i \in 1..Len(calls) } : Count(calls, fn) = 1
  /\ (CallFailed("load_rf_load") \/ CallFailed("load_rf_target") \/ CallFailed("load_scaler")) =>
       /\ rendered = << >>
       /\ ~ CallMade("transform") /\ ~ CallMade("predict_load") /\ ~ CallMade("predict_targets")
  /\ (CallFailed("transform") \/ CallFailed("predict_load") \/ CallFailed("predict_targets")) =>
       /\ ~ Has(rendered, "load") /\ ~ Has(rendered, "table") /\ ~ Has(rendered, "chart")

\* C8 witness: the target model's predict raised after the load model's returned.
C8_Witness ==
  /\ pc = "error"
  /\ CallFailed("predict_targets") /\ CallReturned("predict_load")
  /\ Has(rendered, "inputs")

C10_SidebarNoInfluence ==
  /\ (SameInputsAsRef /\ Has(rendered, "chart") /\ ref[1].cfg # cfg) =>
       /\ shown_load = ref[1].load
       /\ Column(Head(table), "Value") = ref[1].values
       /\ Head(chart).y = ref[1].values
  /\ Has(rendered, "sidebar") =>
       /\ Len(avg_cell_voltage) = 1
       /\ ShowsToHundredth(avg_cell_voltage[1], cfg.STACK_VOLTAGE, 100 * cfg.NUMBER_OF_CELLS)

\* C10 witness: a prediction repeats an earlier one on the same inputs after
\* the stack voltage slider was moved, and the sidebar shows a different average.
C10_Witness ==
  /\ SameInputsAsRef /\ Has(rendered, "chart")
  /\ ref[1].cfg.STACK_VOLTAGE # cfg.STACK_VOLTAGE
  /\ avg_cell_voltage = << << "1", ".", "2", "0" >> >>

====
